---- MODULE Spec2Model ----
(***************************************************************************)
(* A model of the session state and the operations of the data-analyst     *)
(* chatbot: the SQL / code tool (modules/smart_sql_tool.py), the chat, the *)
(* plot-payload renderer, the stored-snippet runner and the settings       *)
(* (modules/ui_components.py), the analytics tools                         *)
(* (modules/agent_manager.py, modules/plot_registry.py), the two CSV       *)
(* loaders and the two database loaders (modules/data_manager.py, app.py)  *)
(* and the main script of app.py.                                          *)
(*                                                                         *)
(* Texts are sequences of one-character strings, so that the prefix,       *)
(* substring, trimming, case-folding and formatting steps of the code are  *)
(* computed character by character, as Python computes them.               *)
(***************************************************************************)
EXTENDS Integers, Sequences, FiniteSets, TLC

(* ------------------------------------------------------------------ *)
(* Bounds of the model                                                  *)
(* ------------------------------------------------------------------ *)

\* most padding characters put before / after a statement
MaxPad == 1
\* the number an explicit LIMIT clause of an input statement asks for
ExplicitLimit == 2
\* how many rows more than max_rows the largest source table holds
Excess == 1
\* most log entries a chat session of the model accumulates
MaxLogs == 10
\* most messages of the conversation
MaxMessages == 4
\* most stored snippets
MaxCodes == 2
\* the clock (whole seconds) runs from 0 to MaxClock
MaxClock == 1
\* most snippet executions of a session run of the model
MaxExec == 1
\* most rows of the table the analytics tools read
MaxRows == 3
\* most files of one upload batch
MaxFiles == 2
\* the batches of files a session uploads
MaxBatches == 2
\* the questions asked of the agents of app.py
MaxAsked == 2

(* ------------------------------------------------------------------ *)
(* Characters and strings                                               *)
(* ------------------------------------------------------------------ *)

UpperCase == <<"A","B","C","D","E","F","G","H","I","J","K","L","M",
               "N","O","P","Q","R","S","T","U","V","W","X","Y","Z">>

LowerCase == <<"a","b","c","d","e","f","g","h","i","j","k","l","m",
               "n","o","p","q","r","s","t","u","v","w","x","y","z">>

Digits == <<"0","1","2","3","4","5","6","7","8","9">>

UpperSet == {UpperCase[i] : i \in DOMAIN UpperCase}

LowerMap == [c \in UpperSet |-> LowerCase[CHOOSE i \in DOMAIN UpperCase : UpperCase[i] = c]]

\* str.lower() on one character
LowerChar(c) == IF c \in UpperSet THEN LowerMap[c] ELSE c

\* str.lower()
Lower(s) == [i \in DOMAIN s |-> LowerChar(s[i])]

\* the characters str.strip() removes
IsSpace(c) == c \in {" ", "\t", "\n", "\r"}

DigitSet == {Digits[i] : i \in DOMAIN Digits}

IsDigit(c) == c \in DigitSet

\* str.strip(): drop the leading and the trailing whitespace
Strip(s) ==
    LET keep == {i \in DOMAIN s : ~IsSpace(s[i])}
    IN  IF keep = {} THEN <<>>
        ELSE LET lo == CHOOSE i \in keep : \A j \in keep : i <= j
                 hi == CHOOSE i \in keep : \A j \in keep : j <= i
             IN  SubSeq(s, lo, hi)

\* str.startswith(p)
StartsWith(s, p) == Len(p) <= Len(s) /\ SubSeq(s, 1, Len(p)) = p

\* p occurs in s at position i
OccursAt(s, p, i) == i >= 1 /\ i + Len(p) - 1 <= Len(s) /\ SubSeq(s, i, i + Len(p) - 1) = p

\* the Python test `p in s`
Contains(s, p) == \E i \in 1..(Len(s) + 1) : OccursAt(s, p, i)

\* str(n) of a natural number, as an f-string formats it
RECURSIVE NatToStr(_)
NatToStr(n) ==
    IF n < 10 THEN <<Digits[n + 1]>>
    ELSE NatToStr(n \div 10) \o <<Digits[(n % 10) + 1]>>

\* the number a run of digits denotes
RECURSIVE StrToNat(_)
StrToNat(s) ==
    IF s = <<>> THEN 0
    ELSE 10 * StrToNat(SubSeq(s, 1, Len(s) - 1))
         + ((CHOOSE i \in DOMAIN Digits : Digits[i] = s[Len(s)]) - 1)


(* ------------------------------------------------------------------ *)
(* SmartSQLQueryTool: the pure steps                                    *)
(* ------------------------------------------------------------------ *)

\* the argument None (no text at all); every other text is a sequence of characters
None == <<"None">>

max_rows == 10000

sql_starts == { <<"s","e","l","e","c","t">>,
                <<"w","i","t","h">>,
                <<"s","h","o","w">>,
                <<"d","e","s","c","r","i","b","e">>,
                <<"p","r","a","g","m","a">>,
                <<"i","n","s","e","r","t">>,
                <<"u","p","d","a","t","e">>,
                <<"d","e","l","e","t","e">> }

FromWord == <<" ","f","r","o","m"," ">>

\* a mutant of _is_sql: the tuple of prefixes lacks the data-changing statements
IsSqlReadOnlyStarts(text) ==
    IF text = None \/ text = <<>> THEN FALSE
    ELSE LET t == Lower(Strip(text))
         IN  \/ \E p \in sql_starts \ { <<"i","n","s","e","r","t">>, <<"u","p","d","a","t","e">>, <<"d","e","l","e","t","e">> } : StartsWith(t, p)
             \/ Contains(t, FromWord)

\* _is_sql: `if not text: return False`, then the prefix / substring test on the
\* trimmed, lower-cased text
IsSql(text) ==
    IF text = None \/ text = <<>> THEN FALSE
    ELSE LET t == Lower(Strip(text))
         IN  \/ \E p \in sql_starts : StartsWith(t, p)
             \/ Contains(t, FromWord)

\* the log entries _is_sql appends: "Entered", and the result unless it returned early
IsSqlLogs(text) == IF text = None \/ text = <<>> THEN 1 ELSE 2

LimitAnnotation == <<"l","i","m","i","t"," ","a","n","n","o","t","a","t","i","o","n","=">>

\* re.sub(r"LIMIT annotation=.*$", "", sql, flags=re.IGNORECASE) matches at i when
\* the literal is there (any case) and `.*` reaches the end of the text: `.` matches
\* no newline, and `$` matches at the end or before one last newline
AnnotationAt(sql, lower_sql, i) ==
    /\ OccursAt(lower_sql, LimitAnnotation, i)
    /\ \A j \in (i + Len(LimitAnnotation))..Len(sql) : sql[j] = "\n" => j = Len(sql)

\* _clean_sql: remove the annotation (the leftmost match), then strip()
CleanSql(sql) ==
    LET lower_sql == Lower(sql)
        at == {i \in DOMAIN sql : AnnotationAt(sql, lower_sql, i)}
    IN  IF at = {} THEN Strip(sql)
        ELSE LET i == CHOOSE k \in at : \A j \in at : k <= j
             IN  Strip(SubSeq(sql, 1, i - 1))

SelectWord == <<"s","e","l","e","c","t">>

LimitWord == <<" ","l","i","m","i","t"," ">>

\* f" LIMIT {self.max_rows}"
LimitSuffix(n) == <<" ","L","I","M","I","T"," ">> \o NatToStr(n)

\* the row-limiting step of _execute_sql
WithRowLimit(clean_sql) ==
    LET lower_sql == Lower(clean_sql)
    IN  IF StartsWith(lower_sql, SelectWord) /\ ~Contains(lower_sql, LimitWord)
        THEN clean_sql \o LimitSuffix(max_rows)
        ELSE clean_sql

(* ------------------------------------------------------------------ *)
(* The database behind pd.read_sql_query                                *)
(* ------------------------------------------------------------------ *)

\* the statement split into tokens at whitespace; a quoted literal is one token
RECURSIVE Scan(_, _, _, _, _)
Scan(s, i, cur, inq, acc) ==
    IF i > Len(s) THEN (IF cur = <<>> THEN acc ELSE Append(acc, cur))
    ELSE IF s[i] = "'" THEN Scan(s, i + 1, Append(cur, s[i]), ~inq, acc)
    ELSE IF IsSpace(s[i]) /\ ~inq
         THEN Scan(s, i + 1, <<>>, FALSE, IF cur = <<>> THEN acc ELSE Append(acc, cur))
    ELSE Scan(s, i + 1, Append(cur, s[i]), inq, acc)

Tokens(s) == Scan(s, 1, <<>>, FALSE, <<>>)

IsLiteral(tok) == Len(tok) >= 2 /\ tok[1] = "'" /\ tok[Len(tok)] = "'"

IsNumber(tok) == tok # <<>> /\ \A i \in DOMAIN tok : IsDigit(tok[i])

IsKeyword(tok, word) == Lower(tok) = word

\* the token positions of the LIMIT clauses of a statement
LimitClauses(s) ==
    LET toks == Tokens(s)
    IN  {j \in DOMAIN toks : /\ IsKeyword(toks[j], <<"l","i","m","i","t">>)
                             /\ j < Len(toks)
                             /\ IsNumber(toks[j + 1])}

HasLimitClause(s) == LimitClauses(s) # {}

Min(a, b) == IF a <= b THEN a ELSE b

\* What the database answers to a statement over the one table t of tableRows rows:
\*   select <literal> [limit n]  |  select <column> from t [limit n]
\* and an error to everything else.
Query(s, tableRows) ==
    LET toks == Tokens(s)
        n    == Len(toks)
        lim  == n >= 2 /\ IsKeyword(toks[n - 1], <<"l","i","m","i","t">>) /\ IsNumber(toks[n])
        k    == IF lim THEN n - 2 ELSE n
        cap(r) == IF lim THEN Min(r, StrToNat(toks[n])) ELSE r
    IN  IF n = 0 \/ ~IsKeyword(toks[1], SelectWord) THEN [ok |-> FALSE, rows |-> 0]
        ELSE IF k = 2 /\ IsLiteral(toks[2]) THEN [ok |-> TRUE, rows |-> cap(1)]
        ELSE IF /\ k = 4
                /\ (toks[2] = <<"*">> \/ IsLiteral(toks[2]))
                /\ IsKeyword(toks[3], <<"f","r","o","m">>)
                /\ toks[4] = <<"t">>
             THEN [ok |-> TRUE, rows |-> cap(tableRows)]
        ELSE [ok |-> FALSE, rows |-> 0]


(* ------------------------------------------------------------------ *)
(* The texts the tool is called with                                    *)
(* ------------------------------------------------------------------ *)

Pad(n, c) == [i \in 1..n |-> c]

Heads == { <<>>, <<"s","e","l","e","c","t">>, <<"S","E","L","E","C","T">>, <<"w","i","t","h">>, <<"s","h","o","w">>, <<"d","e","s","c","r","i","b","e">>, <<"p","r","a","g","m","a">>,
           <<"i","n","s","e","r","t">>, <<"u","p","d","a","t","e">>, <<"d","e","l","e","t","e">>, <<"p","r","i","n","t">>, <<"x">> }

Columns == { <<>>, <<" ","*">>, <<" ","'"," ","l","i","m","i","t"," ","'">> }

Froms == { <<>>, <<" ","f","r","o","m"," ","t">>, <<"\n","f","r","o","m"," ","t">> }

Tails == { <<>>,
           <<" ","l","i","m","i","t"," ">> \o NatToStr(ExplicitLimit),
           <<"\n","l","i","m","i","t"," ">> \o NatToStr(ExplicitLimit),
           <<" ","L","I","M","I","T"," ">> \o NatToStr(ExplicitLimit),
           <<" ","L","I","M","I","T"," ","a","n","n","o","t","a","t","i","o","n","=","x">> }

\* every text of the shape  pad head columns from tail pad, and None
Texts ==
    { Pad(a, " ") \o h \o c \o f \o t \o Pad(b, "\n") :
        a \in 0..MaxPad, b \in 0..MaxPad, h \in Heads, c \in Columns, f \in Froms, t \in Tails }
    \cup { None }

TxtSelect == <<"s","e","l","e","c","t"," ","*"," ","f","r","o","m"," ","t">>

TxtSelectLimit == <<"s","e","l","e","c","t"," ","*"," ","f","r","o","m"," ","t"," ","l","i","m","i","t"," ">> \o NatToStr(ExplicitLimit)

TxtCode == <<"p","r","i","n","t">>

TxtBlank == Pad(MaxPad, " ")

\* the texts the agent hands to the tool during a session
SessionTexts == { TxtSelect, TxtSelectLimit, TxtCode, TxtBlank }

\* the sizes of the source table t
TableSizes == { ExplicitLimit + 1, max_rows + Excess }

\* uuid.uuid4().hex, of which the id keeps the first six characters; a uuid is not
\* drawn twice, but two uuids may share their first six characters
Uuids == { <<"0","0","0","0","0","a","1","1">>, <<"0","0","0","0","0","a","2","2">>, <<"0","0","0","0","0","b","1","1">> }


(* ------------------------------------------------------------------ *)
(* The session state                                                    *)
(* ------------------------------------------------------------------ *)

VARIABLES
    messages,         \* st.session_state.messages: the turns, [role, content]
    generated_codes,  \* st.session_state["generated_codes"]: the stored snippets, [id, code]
    last_sql,         \* st.session_state["last_sql"], None while unset
    last_df,          \* st.session_state["last_df"]: [rows, sql], sql = None while unset
    logs,             \* the number of entries of st.session_state["logs"]
    table_rows,       \* the rows of the source table t behind the engine
    now,              \* int(time.time())
    pc,               \* "idle", or "thinking" while agent_executor.invoke runs
    call,             \* the last call of the tool: [made, text, fault]
    result,           \* what the last call of the tool returned
    stamps,           \* for each stored snippet, the second and the uuid it was stored with
    executed,         \* the snippets exec() has run, in order: [id, code]
    invoked,          \* the last agent_executor.invoke argument: [input, chat_history]
    page,             \* what the chat page drew for each message: [markdown, blocks, charts, errors]
    table_data,       \* the rows of the data table t the analytics tools read: [c, d]
    analytics,        \* the last call of an analytics tool: [tool, args, out]
    upload,           \* a batch of uploaded CSV files and what a loader made of it
    classified,       \* the last direct call of _is_sql: [text, value]
    app,              \* app.py: the session keys of the data source and the last loader call
    allow_code_exec   \* st.session_state["allow_code_exec"], the Settings checkbox

vars == << messages, generated_codes, last_sql, last_df, logs, table_rows, now, pc,
           call, result, stamps, executed, invoked,
           page, table_data, analytics, upload, classified, app, allow_code_exec >>

\* the state outside the chat session proper
sideVars == << page, table_data, analytics, upload, classified, app, allow_code_exec >>

toolVars == << generated_codes, last_sql, last_df, logs, call, result, stamps >>

NoDf == [rows |-> 0, sql |-> None]

NoResult == [status |-> "none", rows |-> 0, query |-> None, id |-> None, message |-> "none"]

ErrorResult(msg) == [status |-> "error", rows |-> 0, query |-> None, id |-> None, message |-> msg]

Prompts == { "q1", "q2" }

Answers == { "answer" }

ErrorAnswer == "An error occurred"

\* nothing drawn, no analytics call, no upload, no direct classification yet
NoOut == [status |-> "none", text |-> <<>>, counts |-> <<>>,
          fig |-> [type |-> "none", x |-> <<>>, y |-> <<>>, xkind |-> "none", ykind |-> "none"]]

NoAnalytics ==
    [tool |-> "none",
     args |-> [table_name |-> None, column |-> None, plot_type |-> None,
               x |-> None, y |-> None, color |-> None],
     out  |-> NoOut]

NoUpload == [loader |-> "none", files |-> <<>>, names |-> <<>>, tables |-> {}]

NoClassified == [made |-> FALSE, text |-> None, value |-> FALSE]

\* app.py before any data source was chosen: st.session_state holds neither db nor
\* agent_executor, no loader was called, no question was asked. attempt and returned
\* are the arguments and the value of the last loader call of the main script,
\* was_ready whether the question area was open before it, probe the last direct call
\* of data_manager's loader, asked the number of questions handed to an agent.
NoApp ==
    [db |-> None, agent_executor |-> None,
     db_external_initialized |-> FALSE,
     db_csv_initialized |-> FALSE, uploaded_file_hashes |-> 0,
     attempt |-> [loader |-> "none", db_type |-> "none", fault |-> "none"],
     returned |-> << None, None >>, was_ready |-> FALSE,
     probe |-> [made |-> FALSE, db_type |-> "none", fault |-> "none",
                returned |-> << None, None >>],
     asked |-> 0]

\* the checkbox is drawn with value=True
InitApp ==
    /\ app = NoApp
    /\ allow_code_exec = TRUE

InitSide ==
    /\ page = <<>>
    /\ table_data = <<>>
    /\ analytics = NoAnalytics
    /\ upload = NoUpload
    /\ classified = NoClassified
    /\ InitApp

\* The session before any interaction: the keys empty or unset (messages is taken to
\* be created empty by the page that calls display_chat_interface).
InitSession ==
    /\ messages = <<>>
    /\ generated_codes = <<>>
    /\ last_sql = None
    /\ last_df = NoDf
    /\ logs = 0
    /\ table_rows \in TableSizes
    /\ now = 0
    /\ pc = "idle"
    /\ call = [made |-> FALSE, text |-> None, fault |-> "none"]
    /\ result = NoResult
    /\ stamps = <<>>
    /\ executed = <<>>
    /\ invoked = [input |-> "none", chat_history |-> <<>>]

Init == InitSession /\ InitSide

(* ------------------------------------------------------------------ *)
(* SmartSQLQueryTool._run and what it calls                             *)
(* ------------------------------------------------------------------ *)

\* what a call of _execute_sql may meet: no fault, or the first step that fails: the
\* engine lookup, the database (whatever the statement), the rendering of the result
Faults == {"none", "engine", "database", "render"}

\* an outcome of _run: the value returned and the session keys as the call leaves them
Outcome(res, sql, df, codes, st, nlogs) ==
    [result |-> res, last_sql |-> sql, last_df |-> df, generated_codes |-> codes,
     stamps |-> st, logs |-> nlogs]

\* a mutant of _execute_sql: no try / except, a failure leaves the method as an exception
ExecuteSqlUnguarded(sql, fault) ==
    LET clean_sql == WithRowLimit(CleanSql(sql))
        q  == Query(clean_sql, table_rows)
        df == [rows |-> q.rows, sql |-> clean_sql]
        ex == [status |-> "exception", rows |-> 0, query |-> None, id |-> None,
               message |-> "raised"]
    IN  IF fault = "engine"
        THEN Outcome(ex, last_sql, last_df, generated_codes, stamps, 3)
        ELSE IF fault = "database" \/ ~q.ok
        THEN Outcome(ex, clean_sql, last_df, generated_codes, stamps, 6)
        ELSE IF fault = "render"
        THEN Outcome(ex, clean_sql, df, generated_codes, stamps, 6)
        ELSE Outcome([status |-> "success", rows |-> q.rows, query |-> clean_sql,
                      id |-> None, message |-> "none"],
                     clean_sql, df, generated_codes, stamps, 7)

\* _execute_sql: engine, clean, row limit, last_sql, query, last_df, render, result;
\* `except Exception` turns a failure of any of these steps into an error result.
\* Log entries: Entered, 2 of _get_engine, [2 of _clean_sql, Executing], and either
\* "executed successfully" or "Error in _execute_sql()".
ExecuteSql(sql, fault) ==
    LET clean_sql == WithRowLimit(CleanSql(sql))
        q  == Query(clean_sql, table_rows)
        df == [rows |-> q.rows, sql |-> clean_sql]
    IN  IF fault = "engine"
        THEN Outcome(ErrorResult("engine"), last_sql, last_df, generated_codes, stamps, 4)
        ELSE IF fault = "database" \/ ~q.ok
        THEN Outcome(ErrorResult("database"), clean_sql, last_df, generated_codes, stamps, 7)
        ELSE IF fault = "render"
        THEN Outcome(ErrorResult("render"), clean_sql, df, generated_codes, stamps, 7)
        ELSE Outcome([status |-> "success", rows |-> q.rows, query |-> clean_sql,
                      id |-> None, message |-> "none"],
                     clean_sql, df, generated_codes, stamps, 7)

CodePrefix == <<"c","o","d","e","_">>

\* a mutant of the id: the timestamp is left out
CodeIdNoTime(second, uuid) == CodePrefix \o SubSeq(uuid, 1, 6)

\* f"code_{int(time.time())}_{uuid.uuid4().hex[:6]}"
CodeId(second, uuid) == CodePrefix \o NatToStr(second) \o <<"_">> \o SubSeq(uuid, 1, 6)

\* a mutant of _store_python_code: the new entry is put first
StorePythonCodeFirst(code, uuid) ==
    LET code_id == CodeId(now, uuid)
    IN  Outcome([status |-> "stored", rows |-> 0, query |-> None, id |-> code_id,
                 message |-> "none"],
                last_sql, last_df,
                <<[id |-> code_id, code |-> code]>> \o generated_codes,
                <<[second |-> now, uuid |-> uuid]>> \o stamps,
                1)

\* _store_python_code: append {id, code}; one log entry
StorePythonCode(code, uuid) ==
    LET code_id == CodeId(now, uuid)
    IN  Outcome([status |-> "stored", rows |-> 0, query |-> None, id |-> code_id,
                 message |-> "none"],
                last_sql, last_df,
                Append(generated_codes, [id |-> code_id, code |-> code]),
                Append(stamps, [second |-> now, uuid |-> uuid]),
                1)

\* (query_or_code or "").strip()
Trimmed(query_or_code) == IF query_or_code = None THEN <<>> ELSE Strip(query_or_code)

\* the session keys and the result after a call
Apply(query_or_code, fault, o, extra) ==
    /\ result' = o.result
    /\ last_sql' = o.last_sql
    /\ last_df' = o.last_df
    /\ generated_codes' = o.generated_codes
    /\ stamps' = o.stamps
    /\ logs' = logs + extra + o.logs
    /\ call' = [made |-> TRUE, text |-> query_or_code, fault |-> fault]

\* a mutant of _run: the text is classified first and the empty text rejected after
RunClassifyFirst(query_or_code) ==
    LET text == Trimmed(query_or_code)
    IN  IF text = <<>>
        THEN Apply(query_or_code, "none",
                   Outcome(ErrorResult("No SQL or Python code provided."),
                           last_sql, last_df, generated_codes, stamps, 1),
                   1 + IsSqlLogs(text))
        ELSE IF IsSql(text)
        THEN \E f \in Faults :
                 Apply(query_or_code, f, ExecuteSql(text, f), 1 + IsSqlLogs(text))
        ELSE /\ Len(generated_codes) < MaxCodes
             /\ \E u \in Uuids \ {stamps[i].uuid : i \in DOMAIN stamps} :
                    Apply(query_or_code, "none", StorePythonCode(text, u),
                          1 + IsSqlLogs(text))

\* _run: reject the empty text, else classify and execute or store.
\* Log entries: "Entered _run()", then "No SQL or Python code provided." or those of
\* _is_sql and of the branch taken.
Run(query_or_code) ==
    LET text == Trimmed(query_or_code)
    IN  IF text = <<>>
        THEN Apply(query_or_code, "none",
                   Outcome(ErrorResult("No SQL or Python code provided."),
                           last_sql, last_df, generated_codes, stamps, 1), 1)
        ELSE IF IsSql(text)
        THEN \E f \in Faults :
                 Apply(query_or_code, f, ExecuteSql(text, f), 1 + IsSqlLogs(text))
        ELSE /\ Len(generated_codes) < MaxCodes
             /\ \E u \in Uuids \ {stamps[i].uuid : i \in DOMAIN stamps} :
                    Apply(query_or_code, "none", StorePythonCode(text, u),
                          1 + IsSqlLogs(text))

(* ------------------------------------------------------------------ *)
(* The chat page: messages drawn, plot payloads extracted               *)
(* ------------------------------------------------------------------ *)

Turn(role, content) == [role |-> role, content |-> content]

OpenMarker == <<"[","P","L","O","T","L","Y","_","J","S","O","N","]">>

CloseMarker == <<"[","/","P","L","O","T","L","Y","_","J","S","O","N","]">>

\* the first position from `from` on where p occurs in s, 0 if there is none
FirstAt(s, p, from) ==
    LET at == {i \in from..(Len(s) + 1) : OccursAt(s, p, i)}
    IN  IF at = {} THEN 0 ELSE CHOOSE i \in at : \A j \in at : i <= j

\* a mutant of the pattern: without re.DOTALL, `.` stops at a newline
RECURSIVE MatchesSingleLine(_, _)
MatchesSingleLine(text, from) ==
    LET o == FirstAt(text, OpenMarker, from)
        c == IF o = 0 THEN 0 ELSE FirstAt(text, CloseMarker, o + Len(OpenMarker))
    IN  IF o = 0 \/ c = 0 THEN <<>>
        ELSE IF \E k \in (o + Len(OpenMarker))..(c - 1) : text[k] = "\n"
        THEN MatchesSingleLine(text, o + 1)
        ELSE << [start |-> o, stop |-> c + Len(CloseMarker) - 1,
                 block |-> SubSeq(text, o + Len(OpenMarker), c - 1)] >>
             \o MatchesSingleLine(text, c + Len(CloseMarker))

\* a mutant of the extraction: re.search instead of re.findall, the first span only
MatchesFirstOnly(text, from) ==
    LET o == FirstAt(text, OpenMarker, from)
        c == IF o = 0 THEN 0 ELSE FirstAt(text, CloseMarker, o + Len(OpenMarker))
    IN  IF o = 0 \/ c = 0 \/ from > 1 THEN <<>>
        ELSE << [start |-> o, stop |-> c + Len(CloseMarker) - 1,
                 block |-> SubSeq(text, o + Len(OpenMarker), c - 1)] >>

\* the non-overlapping matches of r"\[PLOTLY_JSON\](.*?)\[/PLOTLY_JSON\]" with
\* re.DOTALL, left to right: from the leftmost opening marker to the first closing
\* marker behind it (`.*?` is not greedy and crosses newlines), then on behind the match
RECURSIVE Matches(_, _)
Matches(text, from) ==
    LET o == FirstAt(text, OpenMarker, from)
        c == IF o = 0 THEN 0 ELSE FirstAt(text, CloseMarker, o + Len(OpenMarker))
    IN  IF o = 0 \/ c = 0 THEN <<>>
        ELSE << [start |-> o, stop |-> c + Len(CloseMarker) - 1,
                 block |-> SubSeq(text, o + Len(OpenMarker), c - 1)] >>
             \o Matches(text, c + Len(CloseMarker))

\* re.findall(pattern, text, re.DOTALL): the group of each match
FindAll(text) ==
    LET ms == Matches(text, 1) IN [k \in DOMAIN ms |-> ms[k].block]

\* re.sub(pattern, "", text, flags=re.DOTALL): the text without the matches
RECURSIVE Remove(_, _, _)
Remove(text, ms, k) ==
    IF k > Len(ms) THEN SubSeq(text, (IF k = 1 THEN 1 ELSE ms[k - 1].stop + 1), Len(text))
    ELSE SubSeq(text, (IF k = 1 THEN 1 ELSE ms[k - 1].stop + 1), ms[k].start - 1)
         \o Remove(text, ms, k + 1)

Sub(text) == Remove(text, Matches(text, 1), 1)

\* pio.from_json(block) accepts a JSON object; of the payloads of the model those are
\* the texts that are one pair of braces around brace-free text, whitespace around it
ParsesAsFigure(block) ==
    LET b == Strip(block)
    IN  /\ Len(b) >= 2
        /\ b[1] = "{" /\ b[Len(b)] = "}"
        /\ \A k \in 2..(Len(b) - 1) : b[k] \notin {"{", "}"}

RECURSIVE Keep(_, _)
Keep(blocks, k) ==
    IF k > Len(blocks) THEN <<>>
    ELSE (IF ParsesAsFigure(blocks[k]) THEN <<blocks[k]>> ELSE <<>>) \o Keep(blocks, k + 1)

\* render_plotly_from_marker: the cleaned text is shown if not empty (markdown is None
\* when st.markdown is not called), then every block is drawn as a chart, or
\* reported with st.error if it does not parse
RenderPlotlyFromMarker(text) ==
    LET matches == FindAll(text)
        cleaned == Strip(Sub(text))
        charts  == Keep(matches, 1)
    IN  [ markdown |-> IF cleaned # <<>> THEN cleaned ELSE None,
          blocks   |-> matches,
          charts   |-> charts,
          errors   |-> Len(matches) - Len(charts) ]

\* the loop of display_chat_interface over the messages: an assistant message with
\* an opening marker goes through render_plotly_from_marker, any other is shown as is
DrawMessage(msg) ==
    IF msg.role = "assistant" /\ Contains(msg.content, OpenMarker)
    THEN RenderPlotlyFromMarker(msg.content)
    ELSE [markdown |-> msg.content, blocks |-> <<>>, charts |-> <<>>, errors |-> 0]

\* one run of the page: every message is drawn
RenderChat ==
    /\ page = <<>>
    /\ messages # <<>>
    /\ page' = [k \in DOMAIN messages |-> DrawMessage(messages[k])]
    /\ UNCHANGED << messages, toolVars, table_rows, now, pc, executed, invoked,
                    table_data, analytics, upload, classified, app, allow_code_exec >>

\* the texts around a payload, the payloads, and what an answer is made of
Befores == { <<>>, <<"a","b","c"," ">>, Pad(MaxPad, " ") }

Afters == { <<>>, <<" ","d","e","f">>, Pad(MaxPad, "\n") }

Payloads == { <<>>, <<"p">>, <<"{","}">>, <<"{","\n","}">>, <<"x","[","P","L","O","T","L","Y","_","J","S","O","N","]","y">>, <<"[","/","P","L","O","T","L","Y","_","J","S","O","N">> }

Span(p) == OpenMarker \o p \o CloseMarker

FirstParts == { <<>>, OpenMarker \o <<"{","}">> } \cup { Span(p) : p \in Payloads }

SecondParts == { <<>>, CloseMarker, Span(<<"{","}">>), Span(<<"q">>) }

AnswerTexts == { a \o s1 \o s2 \o b : a \in Befores, s1 \in FirstParts, s2 \in SecondParts, b \in Afters }

\* a session with one turn recorded, the answer any of the texts
InitRender ==
    /\ messages \in { << Turn("user", <<"q">>), Turn("assistant", t) >> : t \in AnswerTexts }
    /\ generated_codes = <<>>
    /\ last_sql = None
    /\ last_df = NoDf
    /\ logs = 0
    /\ table_rows \in TableSizes
    /\ now = 0
    /\ pc = "idle"
    /\ call = [made |-> FALSE, text |-> None, fault |-> "none"]
    /\ result = NoResult
    /\ stamps = <<>>
    /\ executed = <<>>
    /\ invoked = [input |-> "none", chat_history |-> <<>>]
    /\ InitSide

SpecRender == InitRender /\ [][RenderChat]_vars

(* ------------------------------------------------------------------ *)
(* The analytics tools (modules/agent_manager.py)                       *)
(* ------------------------------------------------------------------ *)

\* the data source holds one table, t, with a text column c and a date column d;
\* None is the SQL NULL (NaN / NaT once read)
TableT == <<"t">>

ColC == <<"c">>

ColD == <<"d">>

RowValues == { [c |-> <<"a">>, d |-> <<"2","0","2","0","-","0","1","-","0","5">>],
               [c |-> <<"b">>, d |-> <<"2","0","2","1","-","0","3","-","0","1">>],
               [c |-> <<"a">>, d |-> <<"n","/","a">>],
               [c |-> <<"b">>, d |-> <<"2","0","2","0","-","1","2","-","3","1">>],
               [c |-> None,  d |-> None] }

RECURSIVE SeqsUpTo(_, _)
SeqsUpTo(S, n) ==
    IF n = 0 THEN { <<>> }
    ELSE LET shorter == SeqsUpTo(S, n - 1)
         IN  shorter \cup { Append(s, v) : s \in { q \in shorter : Len(q) = n - 1 }, v \in S }

HasColumn(column_name) == column_name \in { ColC, ColD }

\* df[column_name]
ColumnOf(rows, column_name) ==
    [k \in DOMAIN rows |-> IF column_name = ColC THEN rows[k].c ELSE rows[k].d]

\* pd.read_sql_table(table_name, con=engine): the rows, or ValueError
ReadSqlTable(table_name) ==
    IF table_name = TableT
    THEN [ok |-> TRUE, rows |-> table_data, msg |-> <<>>]
    ELSE [ok |-> FALSE, rows |-> <<>>, msg |-> <<"T","a","b","l","e"," ">> \o table_name \o <<" ","n","o","t"," ","f","o","u","n","d">>]

\* pd.read_sql_query(f"SELECT * FROM {table_name}", engine): the rows, or the
\* database's error
ReadSqlQuery(table_name) ==
    IF table_name = TableT
    THEN [ok |-> TRUE, rows |-> table_data, msg |-> <<>>]
    ELSE [ok |-> FALSE, rows |-> <<>>, msg |-> <<"n","o"," ","s","u","c","h"," ","t","a","b","l","e",":"," ">> \o table_name]

\* the values of a column that are not null, in order
RECURSIVE NotNull(_, _)
NotNull(vals, k) ==
    IF k > Len(vals) THEN <<>>
    ELSE (IF vals[k] = None THEN <<>> ELSE <<vals[k]>>) \o NotNull(vals, k + 1)

\* the distinct values in order of their first appearance
RECURSIVE Distinct(_, _)
Distinct(vals, k) ==
    IF k > Len(vals) THEN <<>>
    ELSE (IF \E j \in 1..(k - 1) : vals[j] = vals[k] THEN <<>> ELSE <<vals[k]>>)
         \o Distinct(vals, k + 1)

Occurrences(vals, v) == Cardinality({k \in DOMAIN vals : vals[k] = v})

\* the value / count pairs of a series without nulls, in order of first appearance
Frequencies(present) ==
    LET ds == Distinct(present, 1)
    IN  [k \in DOMAIN ds |-> [value |-> ds[k], count |-> Occurrences(present, ds[k])]]

\* stable sort of value / count pairs by descending count
RECURSIVE SortByCountDesc(_)
SortByCountDesc(pairs) ==
    IF pairs = <<>> THEN <<>>
    ELSE LET top == CHOOSE k \in DOMAIN pairs :
                        /\ \A j \in DOMAIN pairs : pairs[j].count <= pairs[k].count
                        /\ \A j \in 1..(k - 1) : pairs[j].count < pairs[k].count
         IN  <<pairs[top]>>
             \o SortByCountDesc(SubSeq(pairs, 1, top - 1) \o SubSeq(pairs, top + 1, Len(pairs)))

\* a mutant of value_counts: sort=False, the values in order of appearance
ValueCountsUnsorted(present) == Frequencies(present)

\* Series.value_counts() of the values that are not null (dropna=True): the most
\* frequent value first
ValueCounts(present) == SortByCountDesc(Frequencies(present))

\* Series.to_string(): one line per value, the value and its count; an empty series
\* prints as Series([], )
RECURSIVE CountsToString(_, _)
CountsToString(counts, k) ==
    IF counts = <<>> THEN <<"S","e","r","i","e","s","(","[","]",","," ",")">>
    ELSE IF k > Len(counts) THEN <<>>
    ELSE (IF k = 1 THEN <<>> ELSE <<"\n">>)
         \o counts[k].value \o <<" "," "," "," ">> \o NatToStr(counts[k].count)
         \o CountsToString(counts, k + 1)

NoFig == [type |-> "none", x |-> <<>>, y |-> <<>>, xkind |-> "none", ykind |-> "none"]

\* a tool returned the string text (counts, fig: what the text was formatted from)
Returned(text, counts, fig) == [status |-> "returned", text |-> text, counts |-> counts, fig |-> fig]

\* an exception left the tool
Raised(msg) == [status |-> "raised", text |-> msg, counts |-> <<>>, fig |-> NoFig]

\* a mutant of get_data_summary: no try / except around the body
GetDataSummaryUnguarded(table_name) ==
    LET df == ReadSqlTable(table_name)
    IN  IF ~df.ok THEN Raised(df.msg)
        ELSE Returned(<<"D","a","t","a"," ","S","u","m","m","a","r","y"," ","f","o","r"," ","t","a","b","l","e"," ">> \o table_name \o <<":","\n","\n">>
                      \o NatToStr(Len(df.rows)) \o <<" ","e","n","t","r","i","e","s">>, <<>>, NoFig)

\* get_data_summary: info, describe and the missing values of the table as one text
\* (the model keeps the heading, without the backquotes around the table name, the
\* number of entries and the first line of the missing values)
GetDataSummary(table_name) ==
    LET df == ReadSqlTable(table_name)
        missing == { col \in {ColC, ColD} : \E k \in DOMAIN df.rows : ColumnOf(df.rows, col)[k] = None }
    IN  IF ~df.ok THEN Returned(<<"E","r","r","o","r"," ","d","u","r","i","n","g"," ","a","n","a","l","y","s","i","s",":"," ">> \o df.msg, <<>>, NoFig)
        ELSE Returned(<<"D","a","t","a"," ","S","u","m","m","a","r","y"," ","f","o","r"," ","t","a","b","l","e"," ">> \o table_name \o <<":","\n","\n">>
                      \o NatToStr(Len(df.rows)) \o <<" ","e","n","t","r","i","e","s","\n","\n">>
                      \o (IF missing = {} THEN <<"N","o"," ","m","i","s","s","i","n","g"," ","v","a","l","u","e","s"," ","f","o","u","n","d",".">>
                          ELSE <<"M","i","s","s","i","n","g"," ","V","a","l","u","e","s",":">>),
                      <<>>, NoFig)

\* count_categorical_variable
CountCategoricalVariable(table_name, column_name) ==
    LET df == ReadSqlTable(table_name)
    IN  IF ~df.ok THEN Returned(<<"E","r","r","o","r"," ","c","o","u","n","t","i","n","g"," ","c","a","t","e","g","o","r","i","e","s",":"," ">> \o df.msg, <<>>, NoFig)
        ELSE IF ~HasColumn(column_name)
        THEN Returned(<<"E","r","r","o","r",":"," ","C","o","l","u","m","n"," ","'">> \o column_name \o <<"'"," ","n","o","t"," ","f","o","u","n","d"," ","i","n"," ","t","a","b","l","e"," ","'">>
                      \o table_name \o <<"'",".">>, <<>>, NoFig)
        ELSE LET counts == ValueCounts(NotNull(ColumnOf(df.rows, column_name), 1))
             IN  Returned(<<"C","o","u","n","t","s"," ","f","o","r"," ","c","o","l","u","m","n"," ","'">> \o column_name \o <<"'"," ","i","n"," ","t","a","b","l","e"," ","'">>
                          \o table_name \o <<"'",":","\n">> \o CountsToString(counts, 1),
                          counts, NoFig)

\* the characters of the model in the order of their code points
CodeOrder == << " ", "'", "-", "/" >> \o Digits \o UpperCase \o << "_" >> \o LowerCase

CodeOf == [ch \in {CodeOrder[k] : k \in DOMAIN CodeOrder}
               |-> CHOOSE k \in DOMAIN CodeOrder : CodeOrder[k] = ch]

\* s < t as Python compares strings
RECURSIVE StrLess(_, _)
StrLess(s, t) ==
    IF t = <<>> THEN FALSE
    ELSE IF s = <<>> THEN TRUE
    ELSE IF s[1] # t[1] THEN CodeOf[s[1]] < CodeOf[t[1]]
    ELSE StrLess(Tail(s), Tail(t))

\* value / count pairs (distinct text values) in ascending order of the value
RECURSIVE SortByKey(_)
SortByKey(pairs) ==
    IF pairs = <<>> THEN <<>>
    ELSE LET least == CHOOSE k \in DOMAIN pairs :
                          \A j \in DOMAIN pairs : j # k => StrLess(pairs[k].value, pairs[j].value)
         IN  <<pairs[least]>>
             \o SortByKey(SubSeq(pairs, 1, least - 1) \o SubSeq(pairs, least + 1, Len(pairs)))

\* value / count pairs (distinct numbers) in ascending order of the value
RECURSIVE SortByNumber(_)
SortByNumber(pairs) ==
    IF pairs = <<>> THEN <<>>
    ELSE LET least == CHOOSE k \in DOMAIN pairs :
                          \A j \in DOMAIN pairs : pairs[k].value <= pairs[j].value
         IN  <<pairs[least]>>
             \o SortByNumber(SubSeq(pairs, 1, least - 1) \o SubSeq(pairs, least + 1, Len(pairs)))

Values(pairs) == [k \in DOMAIN pairs |-> pairs[k].value]

Counts(pairs) == [k \in DOMAIN pairs |-> pairs[k].count]

\* one value of a data array as JSON
JsonValue(kind, v) ==
    IF kind = "num" THEN NatToStr(v)
    ELSE IF v = None THEN <<"n","u","l","l">>
    ELSE <<"\"">> \o v \o <<"\"">>

RECURSIVE JsonArray(_, _, _)
JsonArray(kind, vals, k) ==
    IF k > Len(vals) THEN <<>>
    ELSE (IF k = 1 THEN <<>> ELSE <<",">>) \o JsonValue(kind, vals[k]) \o JsonArray(kind, vals, k + 1)

\* fig.to_json(): the chart description as a JSON text (the trace type and the two
\* data arrays)
ToJson(fig) ==
    <<"{","\"","t","y","p","e","\"",":","\"">>
    \o (IF fig.type = "bar" THEN <<"b","a","r">> ELSE <<"s","c","a","t","t","e","r">>)
    \o <<"\"",",","\"","x","\"",":","[">> \o JsonArray(fig.xkind, fig.x, 1)
    \o <<"]",",","\"","y","\"",":","[">> \o JsonArray(fig.ykind, fig.y, 1) \o <<"]","}">>

\* PLOT_FUNCTIONS of modules/plot_registry.py
BarType == <<"b","a","r">>

ScatterType == <<"s","c","a","t","t","e","r">>

HistogramType == <<"h","i","s","t","o","g","r","a","m">>

PLOT_FUNCTIONS == { BarType, ScatterType, HistogramType }

CountWord == <<"c","o","u","n","t">>

\* create_interactive_plot: read the table; group by x and count when y is None or
\* "count"; look the plot function up; call it with x and y (and color, if given).
\* histogram_plot takes no y, so the call with y raises TypeError; px.bar and
\* px.scatter raise ValueError for an argument that names no column of the frame.
CreateInteractivePlot(table_name, plot_type, x, y, color) ==
    LET df      == ReadSqlQuery(table_name)
        grouped == y = None \/ y = CountWord
        columns == IF grouped THEN {x, CountWord} ELSE {ColC, ColD}
        yname   == IF grouped THEN CountWord ELSE y
        groups  == SortByKey(Frequencies(NotNull(ColumnOf(df.rows, x), 1)))
        fig     == IF grouped
                   THEN [type |-> IF plot_type = BarType THEN "bar" ELSE "scatter",
                         x |-> Values(groups), y |-> Counts(groups),
                         xkind |-> "str", ykind |-> "num"]
                   ELSE [type |-> IF plot_type = BarType THEN "bar" ELSE "scatter",
                         x |-> ColumnOf(df.rows, x), y |-> ColumnOf(df.rows, y),
                         xkind |-> "str", ykind |-> "str"]
        Error(msg) == Returned(<<"E","r","r","o","r"," ","c","r","e","a","t","i","n","g"," ","p","l","o","t",":"," ">> \o msg, <<>>, NoFig)
    IN  IF ~df.ok THEN Error(df.msg)
        ELSE IF grouped /\ ~HasColumn(x) THEN Error(<<"'">> \o x \o <<"'">>)
        ELSE IF plot_type \notin PLOT_FUNCTIONS
        THEN Error(<<"U","n","s","u","p","p","o","r","t","e","d"," ","p","l","o","t"," ","t","y","p","e",":"," ">> \o plot_type)
        ELSE IF plot_type = HistogramType
        THEN Error(<<"h","i","s","t","o","g","r","a","m","_","p","l","o","t","(",")"," ","g","o","t"," ","a","n"," ","u","n","e","x","p","e","c","t","e","d"," ","k","e","y","w","o","r","d"," ","a","r","g","u","m","e","n","t"," ","'","y","'">>)
        ELSE IF x \notin columns \/ yname \notin columns \/ (color # None /\ color \notin columns)
        THEN Error(<<"V","a","l","u","e"," ","i","s"," ","n","o","t"," ","t","h","e"," ","n","a","m","e"," ","o","f"," ","a"," ","c","o","l","u","m","n"," ","i","n"," ","'","d","a","t","a","_","f","r","a","m","e","'",".">>)
        ELSE Returned(OpenMarker \o ToJson(fig) \o CloseMarker, <<>>, fig)

\* pd.to_datetime(value, errors='coerce') finds a date in the value: of the values of
\* the model, in the texts of the shape dddd-dd-dd
ParsesAsDate(v) ==
    /\ v # None
    /\ Len(v) = 10
    /\ v[5] = "-" /\ v[8] = "-"
    /\ \A k \in {1, 2, 3, 4, 6, 7, 9, 10} : IsDigit(v[k])

\* .dt.year
YearOf(v) == StrToNat(SubSeq(v, 1, 4))

\* the years of the values that parse, in order (the rows with NaT are dropped)
RECURSIVE Years(_, _)
Years(vals, k) ==
    IF k > Len(vals) THEN <<>>
    ELSE (IF ParsesAsDate(vals[k]) THEN <<YearOf(vals[k])>> ELSE <<>>) \o Years(vals, k + 1)

\* a mutant of create_yearly_summary_plot: no sort_values('Year'), the buckets stay in
\* the order of value_counts
CreateYearlySummaryPlotUnsorted(table_name, date_column) ==
    LET df == ReadSqlTable(table_name)
        yearly_counts == ValueCounts(Years(ColumnOf(df.rows, date_column), 1))
        fig == [type |-> "bar", x |-> Values(yearly_counts), y |-> Counts(yearly_counts),
                xkind |-> "num", ykind |-> "num"]
        Error(msg) == Returned(<<"E","r","r","o","r"," ","c","r","e","a","t","i","n","g"," ","y","e","a","r","l","y"," ","s","u","m","m","a","r","y"," ","p","l","o","t",":"," ">> \o msg, <<>>, NoFig)
    IN  IF ~df.ok THEN Error(df.msg)
        ELSE IF ~HasColumn(date_column) THEN Error(<<"'">> \o date_column \o <<"'">>)
        ELSE Returned(OpenMarker \o ToJson(fig) \o CloseMarker, <<>>, fig)

\* create_yearly_summary_plot: coerce the column to dates, drop the rows that do not
\* parse, count the rows of each year, sort by year, draw the counts as a bar chart
CreateYearlySummaryPlot(table_name, date_column) ==
    LET df == ReadSqlTable(table_name)
        yearly_counts == SortByNumber(ValueCounts(Years(ColumnOf(df.rows, date_column), 1)))
        fig == [type |-> "bar", x |-> Values(yearly_counts), y |-> Counts(yearly_counts),
                xkind |-> "num", ykind |-> "num"]
        Error(msg) == Returned(<<"E","r","r","o","r"," ","c","r","e","a","t","i","n","g"," ","y","e","a","r","l","y"," ","s","u","m","m","a","r","y"," ","p","l","o","t",":"," ">> \o msg, <<>>, NoFig)
    IN  IF ~df.ok THEN Error(df.msg)
        ELSE IF ~HasColumn(date_column) THEN Error(<<"'">> \o date_column \o <<"'">>)
        ELSE Returned(OpenMarker \o ToJson(fig) \o CloseMarker, <<>>, fig)

\* the arguments the agent calls the tools with
TableNames == { TableT, <<"u">> }

ColumnNames == { ColC, ColD, <<"z">> }

PlotTypes == PLOT_FUNCTIONS \cup { <<"p","i","e">> }

YNames == { None, CountWord, ColD, <<"z">> }

ColorNames == { None, ColC }

Args(table_name, column, plot_type, x, y, color) ==
    [table_name |-> table_name, column |-> column, plot_type |-> plot_type,
     x |-> x, y |-> y, color |-> color]

analyticsFrame == << messages, toolVars, table_rows, now, pc, executed, invoked,
                     page, table_data, upload, classified, app, allow_code_exec >>

\* the agent calls analyze_data_summary
CallGetDataSummary(table_name) ==
    /\ analytics.tool = "none"
    /\ analytics' = [tool |-> "get_data_summary",
                     args |-> Args(table_name, None, None, None, None, None),
                     out  |-> GetDataSummary(table_name)]
    /\ UNCHANGED analyticsFrame

\* the agent calls count_categorical_variable
CallCountCategoricalVariable(table_name, column_name) ==
    /\ analytics.tool = "none"
    /\ analytics' = [tool |-> "count_categorical_variable",
                     args |-> Args(table_name, column_name, None, None, None, None),
                     out  |-> CountCategoricalVariable(table_name, column_name)]
    /\ UNCHANGED analyticsFrame

\* the agent calls create_interactive_plot
CallCreateInteractivePlot(table_name, plot_type, x, y, color) ==
    /\ analytics.tool = "none"
    /\ analytics' = [tool |-> "create_interactive_plot",
                     args |-> Args(table_name, None, plot_type, x, y, color),
                     out  |-> CreateInteractivePlot(table_name, plot_type, x, y, color)]
    /\ UNCHANGED analyticsFrame

\* the agent calls create_yearly_summary_plot
CallCreateYearlySummaryPlot(table_name, date_column) ==
    /\ analytics.tool = "none"
    /\ analytics' = [tool |-> "create_yearly_summary_plot",
                     args |-> Args(table_name, date_column, None, None, None, None),
                     out  |-> CreateYearlySummaryPlot(table_name, date_column)]
    /\ UNCHANGED analyticsFrame

NextAnalytics ==
    \/ \E t \in TableNames : CallGetDataSummary(t)
    \/ \E t \in TableNames, col \in ColumnNames : CallCountCategoricalVariable(t, col)
    \/ \E t \in TableNames, p \in PlotTypes, x \in ColumnNames, y \in YNames, col \in ColorNames :
           CallCreateInteractivePlot(t, p, x, y, col)
    \/ \E t \in TableNames, col \in ColumnNames : CallCreateYearlySummaryPlot(t, col)

\* a session whose data source holds any table t of up to MaxRows rows
InitAnalytics ==
    /\ InitSession
    /\ page = <<>>
    /\ table_data \in SeqsUpTo(RowValues, MaxRows)
    /\ analytics = NoAnalytics
    /\ upload = NoUpload
    /\ classified = NoClassified
    /\ InitApp

\* one call of an analytics tool on any table
SpecAnalytics == InitAnalytics /\ [][NextAnalytics]_vars

(* ------------------------------------------------------------------ *)
(* The CSV loaders (modules/data_manager.py, app.py)                    *)
(* ------------------------------------------------------------------ *)

LowerSet == {LowerCase[k] : k \in DOMAIN LowerCase}

\* str.isalnum() on one character
IsAlnum(ch) == ch \in UpperSet \cup LowerSet \cup DigitSet

\* os.path.splitext(name)[0]: the name up to its last dot, the whole name if it has no
\* dot or only leading ones
SplitExtRoot(name) ==
    LET dots == {k \in DOMAIN name : name[k] = "."}
        last == CHOOSE k \in dots : \A j \in dots : j <= k
    IN  IF dots = {} \/ \A j \in 1..(last - 1) : name[j] = "."
        THEN name
        ELSE SubSeq(name, 1, last - 1)

\* ''.join(e for e in table_name if e.isalnum() or e == '_')
RECURSIVE KeepAlnum(_, _)
KeepAlnum(s, k) ==
    IF k > Len(s) THEN <<>>
    ELSE (IF IsAlnum(s[k]) \/ s[k] = "_" THEN <<s[k]>> ELSE <<>>) \o KeepAlnum(s, k + 1)

\* ''.join(c if c.isalnum() else '_' for c in table_name)
ReplaceNonAlnum(s) == [k \in DOMAIN s |-> IF IsAlnum(s[k]) THEN s[k] ELSE "_"]

\* the table name handle_csv_uploads gives a file
DataManagerName(file) == Lower(KeepAlnum(SplitExtRoot(file), 1))

\* the longest table name initialize_agent_from_csvs lets through
MaxNameLen == 60

\* the table name initialize_agent_from_csvs gives a file, before the collision check:
\* sanitized, prefixed if empty or starting with a digit, cut to MaxNameLen
AppName(file) ==
    LET sanitized == Lower(ReplaceNonAlnum(SplitExtRoot(file)))
        prefixed  == IF sanitized = <<>> \/ IsDigit(sanitized[1])
                     THEN <<"c","s","v","_","d","a","t","a","_">> \o sanitized ELSE sanitized
    IN  IF Len(prefixed) > MaxNameLen THEN SubSeq(prefixed, 1, MaxNameLen) ELSE prefixed

\* the loop `while table_name in created_table_names`: the first of name_1, name_2, ...
\* that is not taken (there is one among the first Len(created) + 1)
RECURSIVE Unique(_, _, _)
Unique(original, counter, created) ==
    LET candidate == IF counter = 0 THEN original
                     ELSE original \o <<"_">> \o NatToStr(counter)
    IN  IF \E k \in DOMAIN created : created[k] = candidate
        THEN Unique(original, counter + 1, created)
        ELSE candidate

\* df.to_sql(table_name, engine, if_exists="replace") for file k: the table of that
\* name now holds the rows of file k, whatever it held before
ToSql(tables, table_name, k) ==
    { t \in tables : t.name # table_name } \cup { [name |-> table_name, file |-> k] }

\* handle_csv_uploads over the files from k on
RECURSIVE DataManagerLoad(_, _, _, _)
DataManagerLoad(files, k, names, tables) ==
    IF k > Len(files) THEN [names |-> names, tables |-> tables]
    ELSE LET table_name == DataManagerName(files[k])
         IN  DataManagerLoad(files, k + 1, Append(names, table_name),
                             ToSql(tables, table_name, k))

\* initialize_agent_from_csvs over the files from k on
RECURSIVE AppLoad(_, _, _, _)
AppLoad(files, k, names, tables) ==
    IF k > Len(files) THEN [names |-> names, tables |-> tables]
    ELSE LET table_name == Unique(AppName(files[k]), 0, names)
         IN  AppLoad(files, k + 1, Append(names, table_name), ToSql(tables, table_name, k))

uploadFrame == << messages, toolVars, table_rows, now, pc, executed, invoked,
                  page, table_data, analytics, classified, app, allow_code_exec >>

\* modules/data_manager.py: handle_csv_uploads(uploaded_files) on the batch
HandleCsvUploads ==
    /\ upload.loader = "none"
    /\ upload.files # <<>>
    /\ LET done == DataManagerLoad(upload.files, 1, <<>>, {})
       IN  upload' = [upload EXCEPT !.loader = "handle_csv_uploads",
                                    !.names = done.names, !.tables = done.tables]
    /\ UNCHANGED uploadFrame

\* app.py: initialize_agent_from_csvs(files) on the batch
InitializeAgentFromCsvs ==
    /\ upload.loader = "none"
    /\ upload.files # <<>>
    /\ LET done == AppLoad(upload.files, 1, <<>>, {})
       IN  upload' = [upload EXCEPT !.loader = "initialize_agent_from_csvs",
                                    !.names = done.names, !.tables = done.tables]
    /\ UNCHANGED uploadFrame

NextUpload == HandleCsvUploads \/ InitializeAgentFromCsvs

\* the names of the uploaded files
FileNames == { <<"e","m","p","l","o","y","e","e","s",".","c","s","v">>, <<"S","a","l","e","s"," ","Q","1",".","c","s","v">>, <<"s","a","l","e","s","_","q","1",".","c","s","v">>, <<"s","a","l","e","s","q","1",".","c","s","v">>,
               <<"2","0","2","4",".","c","s","v">>, <<"D","a","t","a",".","c","s","v">>, Pad(MaxNameLen + 1, "x") \o <<".","c","s","v">> }

\* a session in which a batch of one to MaxFiles files was selected for upload
InitUpload ==
    /\ InitSession
    /\ page = <<>>
    /\ table_data = <<>>
    /\ analytics = NoAnalytics
    /\ upload \in { [loader |-> "none", files |-> fs, names |-> <<>>, tables |-> {}] :
                        fs \in SeqsUpTo(FileNames, MaxFiles) \ { <<>> } }
    /\ classified = NoClassified
    /\ InitApp

\* a batch of CSV files loaded by either loader
SpecUpload == InitUpload /\ [][NextUpload]_vars

(* ------------------------------------------------------------------ *)
(* app.py: the data source, the agent, the question area                *)
(* ------------------------------------------------------------------ *)

\* the database types a connection form may carry; Oracle stands for any other type
DbTypes == { "PostgreSQL", "MySQL", "SQL Server", "Oracle" }

\* what a loader may meet: nothing, a driver or connection error (SQLAlchemyError), a
\* database without tables, a failure while the SQLDatabase, the LLM or the agent is made
ConnectFaults == { "none", "driver", "no_tables", "agent" }

\* the batches of files the uploader may hold, as hash(tuple of the file names)
FileHashes == 1..MaxBatches

\* an object a loader returns: an engine, an SQLDatabase, an agent executor
Handle(kind, source) == << kind, source >>

\* initialize_agent_from_external_db: (db, agent_executor), or (None, None) for a type
\* outside the if / elif chain, for no table, and for every exception
InitializeAgentFromExternalDb(db_type, fault) ==
    IF db_type \notin { "PostgreSQL", "MySQL", "SQL Server" } THEN << None, None >>
    ELSE IF fault = "driver" THEN << None, None >>
    ELSE IF fault = "no_tables" THEN << None, None >>
    ELSE IF fault = "agent" THEN << None, None >>
    ELSE << Handle("db", db_type), Handle("agent", db_type) >>

\* handle_external_db_connection: (engine, sorted table names), or (None, None) for a
\* type outside its if / elif chain, for no table, and for every exception; it makes
\* no agent
HandleExternalDbConnection(db_type, fault) ==
    IF db_type \notin { "PostgreSQL", "MySQL" } THEN << None, None >>
    ELSE IF fault = "driver" THEN << None, None >>
    ELSE IF fault = "no_tables" THEN << None, None >>
    ELSE << Handle("engine", db_type), << "t" >> >>

\* what initialize_agent_from_csvs returns: (db, agent_executor), or (None, None) for
\* every failure
CsvAgent(fault) ==
    IF fault = "none" THEN << Handle("db", "csv"), Handle("agent", "csv") >>
    ELSE << None, None >>

\* `if st.session_state.get('db') and st.session_state.get('agent_executor'):` the
\* question area is drawn
Ready == app.db # None /\ app.agent_executor # None

appFrame == << messages, toolVars, table_rows, now, pc, executed, invoked,
               page, table_data, analytics, upload, classified, allow_code_exec >>

\* a mutant of the Connect branch: the session keys are written only for a connection
\* that was made
ConnectToDatabaseKeepOld(db_type, fault) ==
    LET r == InitializeAgentFromExternalDb(db_type, fault)
    IN  /\ app' = [app EXCEPT !.db = IF r[1] # None THEN r[1] ELSE @,
                               !.agent_executor = IF r[2] # None THEN r[2] ELSE @,
                               !.db_external_initialized = TRUE,
                               !.attempt = [loader |-> "external", db_type |-> db_type,
                                            fault |-> fault],
                               !.returned = r,
                               !.was_ready = Ready]
        /\ UNCHANGED appFrame

\* the main script, "Connect to External Database" with the Connect button clicked:
\* what the loader returned is stored under db and agent_executor, whatever it is
ConnectToDatabase(db_type, fault) ==
    LET r == InitializeAgentFromExternalDb(db_type, fault)
    IN  /\ app' = [app EXCEPT !.db = r[1],
                               !.agent_executor = r[2],
                               !.db_external_initialized = TRUE,
                               !.attempt = [loader |-> "external", db_type |-> db_type,
                                            fault |-> fault],
                               !.returned = r,
                               !.was_ready = Ready]
        /\ UNCHANGED appFrame

\* the main script, "Upload CSVs" with files in the uploader: the agent is made anew
\* for a batch not seen before, else the session keys are read back
UploadCsvs(file_hashes, fault) ==
    LET r == CsvAgent(fault)
    IN  /\ ~app.db_csv_initialized \/ app.uploaded_file_hashes # file_hashes
        /\ app' = [app EXCEPT !.db_csv_initialized = TRUE,
                               !.uploaded_file_hashes = file_hashes,
                               !.db = r[1],
                               !.agent_executor = r[2],
                               !.attempt = [loader |-> "csv", db_type |-> "none",
                                            fault |-> fault],
                               !.returned = r,
                               !.was_ready = Ready]
        /\ UNCHANGED appFrame

\* the main script, the Get Answer button with a question typed: drawn inside the
\* ready branch only; the question goes to agent_executor.invoke
GetAnswer ==
    /\ Ready
    /\ app.asked < MaxAsked
    /\ app' = [app EXCEPT !.asked = @ + 1]
    /\ UNCHANGED appFrame

\* clear_all_state: st.session_state.clear()
ClearAppState ==
    /\ app' = [NoApp EXCEPT !.asked = app.asked, !.probe = app.probe]
    /\ app' # app
    /\ UNCHANGED appFrame

\* handle_external_db_connection called on its own (it writes no session key)
CallHandleExternalDbConnection(db_type, fault) ==
    /\ app' = [app EXCEPT !.probe = [made |-> TRUE, db_type |-> db_type, fault |-> fault,
                                      returned |-> HandleExternalDbConnection(db_type, fault)]]
    /\ UNCHANGED appFrame

NextConnect ==
    \/ \E t \in DbTypes, f \in ConnectFaults : ConnectToDatabase(t, f)
    \/ \E h \in FileHashes, f \in { "none", "csv" } : UploadCsvs(h, f)
    \/ GetAnswer
    \/ ClearAppState
    \/ \E t \in DbTypes, f \in ConnectFaults : CallHandleExternalDbConnection(t, f)

\* the data source chosen, connected, changed and reset, questions asked
SpecConnect == Init /\ [][NextConnect]_vars

(* ------------------------------------------------------------------ *)
(* The steps of a session                                               *)
(* ------------------------------------------------------------------ *)

\* display_chat_interface, a prompt typed into st.chat_input: the user turn is
\* appended and agent_executor.invoke is entered with the messages as chat_history
SubmitPrompt(prompt) ==
    /\ pc = "idle"
    /\ Len(messages) + 2 <= MaxMessages
    /\ messages' = Append(messages, Turn("user", prompt))
    /\ invoked' = [input |-> prompt, chat_history |-> messages']
    /\ pc' = "thinking"
    /\ UNCHANGED << toolVars, table_rows, now, executed, sideVars >>

\* a mutant of the tool call: a snippet is executed as soon as the agent stores it
ToolCallAutoRun(query_or_code) ==
    /\ pc = "thinking"
    /\ Run(query_or_code)
    /\ logs' <= MaxLogs
    /\ executed' = IF Len(generated_codes') > Len(generated_codes) /\ Len(executed) < MaxExec
                   THEN Append(executed, generated_codes'[Len(generated_codes')])
                   ELSE executed
    /\ UNCHANGED << messages, pc, table_rows, now, invoked, sideVars >>

\* a tool call of the agent loop: SmartSQLQueryTool._run(query_or_code); an exception
\* leaving the tool leaves invoke and is caught by display_chat_interface
ToolCall(query_or_code) ==
    /\ pc = "thinking"
    /\ Run(query_or_code)
    /\ logs' <= MaxLogs
    /\ IF result'.status = "exception"
       THEN /\ messages' = Append(messages, Turn("assistant", ErrorAnswer))
            /\ pc' = "idle"
       ELSE UNCHANGED << messages, pc >>
    /\ UNCHANGED << table_rows, now, executed, invoked, sideVars >>

\* display_chat_interface, invoke returned: the assistant turn is appended, st.rerun()
AgentReturn(answer) ==
    /\ pc = "thinking"
    /\ messages' = Append(messages, Turn("assistant", answer))
    /\ pc' = "idle"
    /\ UNCHANGED << toolVars, table_rows, now, executed, invoked, sideVars >>

\* a mutant of the except branch: the error message replaces the user's turn
AgentRaiseOverwrite ==
    /\ pc = "thinking"
    /\ messages' = [messages EXCEPT ![Len(messages)] = Turn("assistant", ErrorAnswer)]
    /\ pc' = "idle"
    /\ UNCHANGED << toolVars, table_rows, now, executed, invoked, sideVars >>

\* a mutant of the except branch: the failure is swallowed, no turn is appended
AgentRaiseSilent ==
    /\ pc = "thinking"
    /\ pc' = "idle"
    /\ UNCHANGED << messages, toolVars, table_rows, now, executed, invoked, sideVars >>

\* display_chat_interface, invoke raised: `except Exception` appends the error turn
AgentRaise ==
    /\ pc = "thinking"
    /\ messages' = Append(messages, Turn("assistant", ErrorAnswer))
    /\ pc' = "idle"
    /\ UNCHANGED << toolVars, table_rows, now, executed, invoked, sideVars >>

\* a mutant of the Clear button: the stored snippets are kept
ClearChatMessagesOnly ==
    /\ pc = "idle"
    /\ messages' = <<>>
    /\ UNCHANGED << toolVars, table_rows, now, pc, executed, invoked, sideVars >>

\* display_chat_interface, the Clear Chat History button
ClearChat ==
    /\ pc = "idle"
    /\ messages' = <<>>
    /\ generated_codes' = <<>>
    /\ stamps' = <<>>
    /\ UNCHANGED << last_sql, last_df, logs, call, result, table_rows, now, pc, executed,
                    invoked, sideVars >>

\* display_automated_eda, the Run button of entry i: exec(entry["code"], ...). A
\* second button of the same key is not drawn (the page stops at the duplicate key).
ClickRun(i) ==
    /\ pc = "idle"
    /\ i \in DOMAIN generated_codes
    /\ \A j \in 1..(i - 1) : generated_codes[j].id # generated_codes[i].id
    /\ Len(executed) < MaxExec
    /\ executed' = Append(executed, generated_codes[i])
    /\ UNCHANGED << messages, toolVars, table_rows, now, pc, invoked, sideVars >>

\* a second passes
Tick ==
    /\ now < MaxClock
    /\ now' = now + 1
    /\ UNCHANGED << messages, toolVars, table_rows, pc, executed, invoked, sideVars >>

Next ==
    \/ \E p \in Prompts : SubmitPrompt(p)
    \/ \E t \in SessionTexts : ToolCall(t)
    \/ \E a \in Answers : AgentReturn(a)
    \/ AgentRaise
    \/ ClearChat
    \/ \E i \in 1..MaxCodes : ClickRun(i)
    \/ Tick

\* a chat session: prompts, the agent's tool calls and answers, the two buttons, the clock
Spec == Init /\ [][Next]_vars

\* the session keys of app.py once a connection was made
ConnectedApp ==
    LET r == InitializeAgentFromExternalDb("PostgreSQL", "none")
    IN  [NoApp EXCEPT !.db = r[1], !.agent_executor = r[2],
                      !.db_external_initialized = TRUE,
                      !.attempt = [loader |-> "external", db_type |-> "PostgreSQL",
                                   fault |-> "none"],
                      !.returned = r]

\* a session that holds a data source and an agent, its chat not yet used
InitConnected ==
    /\ InitSession
    /\ page = <<>>
    /\ table_data = <<>>
    /\ analytics = NoAnalytics
    /\ upload = NoUpload
    /\ classified = NoClassified
    /\ app = ConnectedApp
    /\ allow_code_exec = TRUE

\* a chat session on a connected data source
SpecChat == InitConnected /\ [][Next]_vars

\* the tool called once, on any text, in a fresh session
RunOnce(query_or_code) ==
    /\ ~call.made
    /\ Run(query_or_code)
    /\ UNCHANGED << messages, table_rows, now, pc, executed, invoked, sideVars >>

NextTool == \E t \in Texts : RunOnce(t)

SpecTool == Init /\ [][NextTool]_vars

\* the tool called again and again while the clock runs
RunAgain(query_or_code) ==
    /\ Run(query_or_code)
    /\ logs' <= 2 * MaxLogs
    /\ UNCHANGED << messages, table_rows, now, pc, executed, invoked, sideVars >>

\* no text at all: None, the empty text, white space only
EmptyTexts == { None, <<>>, TxtBlank }

NextCalls ==
    \/ \E t \in SessionTexts \cup EmptyTexts : RunAgain(t)
    \/ Tick

SpecCalls == Init /\ [][NextCalls]_vars


\* display_settings, the "Allow agent-generated code execution" checkbox ticked or
\* unticked: the widget writes its value under the key allow_code_exec
SetAllowCodeExec(value) ==
    /\ value # allow_code_exec
    /\ allow_code_exec' = value
    /\ UNCHANGED << messages, toolVars, table_rows, now, pc, executed, invoked,
                    page, table_data, analytics, upload, classified, app >>

NextSettings ==
    \/ \E t \in SessionTexts : RunAgain(t)
    \/ \E i \in 1..MaxCodes : ClickRun(i)
    \/ \E b \in BOOLEAN : SetAllowCodeExec(b)

\* snippets stored by the tool, the Settings checkbox, the Run buttons
SpecSettings == Init /\ [][NextSettings]_vars


\* the texts _is_sql is called with directly
ClassifyTexts == { None, <<>>, TxtSelect, TxtCode, TxtBlank, <<"x"," ","f","r","o","m"," ","t">> }

classifyFrame == << messages, generated_codes, last_sql, last_df, table_rows, now, pc,
                    call, result, stamps, executed, invoked,
                    page, table_data, analytics, upload, app, allow_code_exec >>

\* a mutant of _is_sql: the text found to be SQL is remembered as the last statement
IsSqlCallRemembering(text) ==
    /\ logs + IsSqlLogs(text) <= 2 * MaxLogs
    /\ classified' = [made |-> TRUE, text |-> text, value |-> IsSql(text)]
    /\ logs' = logs + IsSqlLogs(text)
    /\ last_sql' = IF IsSql(text) THEN text ELSE last_sql
    /\ UNCHANGED << messages, generated_codes, last_df, table_rows, now, pc,
                    call, result, stamps, executed, invoked,
                    page, table_data, analytics, upload, app, allow_code_exec >>

\* SmartSQLQueryTool._is_sql(text) called on its own: log "Entered _is_sql()", return
\* False for no text, else test the text and log the result
IsSqlCall(text) ==
    /\ logs + IsSqlLogs(text) <= 2 * MaxLogs
    /\ classified' = [made |-> TRUE, text |-> text, value |-> IsSql(text)]
    /\ logs' = logs + IsSqlLogs(text)
    /\ UNCHANGED classifyFrame

NextClassify ==
    \/ \E t \in SessionTexts : RunAgain(t)
    \/ \E t \in ClassifyTexts : IsSqlCall(t)

\* calls of the tool and direct calls of the classifier, in any order
SpecClassify == Init /\ [][NextClassify]_vars

(* ------------------------------------------------------------------ *)
(* Properties                                                           *)
(* ------------------------------------------------------------------ *)

\* the text _run works on in the last call, and its cleaned form
CallText == Trimmed(call.text)

CallClean == CleanSql(CallText)

\* the last call went down the SQL branch of _run
SqlBranch == result.status = "success"
             \/ (result.status = "error" /\ result.message \in {"engine", "database", "render"})

\* C1 (as claimed). Row cap: a statement whose cleaned, lower-cased text starts with
\* `select` and that has no LIMIT clause, whatever else it contains, is executed with
\* LIMIT max_rows appended, so a successful result reports rows <= max_rows.
C1_RowCap ==
    ( /\ call.made
      /\ StartsWith(Lower(CallClean), SelectWord)
      /\ ~HasLimitClause(CallClean)
      /\ result.status = "success" )
    => result.rows <= max_rows

\* C2 (as claimed). Explicit limit honoured: a statement that already has a LIMIT
\* clause (however cased or spaced), or that does not start with `select`, is sent to
\* the database and recorded in last_sql exactly as cleaned; no LIMIT is appended.
\* Stated of the statements the database accepts as cleaned.
C2_ExplicitLimitHonoured ==
    ( /\ call.made
      /\ last_sql # None
      /\ Query(CallClean, table_rows).ok
      /\ (HasLimitClause(CallClean) \/ ~StartsWith(Lower(CallClean), SelectWord)) )
    => last_sql = CallClean

\* the rule of C3 on a text: one of the eight prefixes, or " from " inside, after
\* trimming and lower-casing
ClaimedSql(t) ==
    LET low == Lower(Strip(t))
    IN  \/ \E w \in { <<"s","e","l","e","c","t">>, <<"w","i","t","h">>, <<"s","h","o","w">>,
                      <<"d","e","s","c","r","i","b","e">>, <<"p","r","a","g","m","a">>,
                      <<"i","n","s","e","r","t">>, <<"u","p","d","a","t","e">>,
                      <<"d","e","l","e","t","e">> } : StartsWith(low, w)
        \/ Contains(low, <<" ","f","r","o","m"," ">>)

\* C3 (as claimed). Classification rule: every non-empty text that the rule calls SQL
\* goes to SQL execution, and every other non-empty text is stored as code by _run.
C3_Original ==
    (call.made /\ call.text # None /\ call.text # <<>>)
    => /\ ClaimedSql(call.text) => SqlBranch
       /\ ~ClaimedSql(call.text) => result.status = "stored"

\* C3 (amended). Every text that is not blank after trimming goes to SQL execution
\* exactly when the rule calls it SQL, and is stored as code otherwise; a text of
\* whitespace only is not SQL by the rule, and _run rejects it: nothing is stored or run.
C3_Classification ==
    (call.made /\ call.text # None /\ call.text # <<>>)
    => /\ (CallText # <<>> /\ ClaimedSql(call.text)) => SqlBranch
       /\ (CallText # <<>> /\ ~ClaimedSql(call.text))
              => (result.status = "stored" /\ Len(generated_codes) = 1)
       /\ CallText = <<>>
              => /\ ~ClaimedSql(call.text)
                 /\ result = ErrorResult("No SQL or Python code provided.")
                 /\ generated_codes = <<>> /\ last_sql = None /\ last_df = NoDf

\* C3, reached: a text with none of the prefixes went to SQL execution for its " from "
C3_Witness ==
    /\ call.made /\ call.text # None
    /\ Contains(Lower(CallText), FromWord)
    /\ \A w \in sql_starts : ~StartsWith(Lower(CallText), w)
    /\ SqlBranch


\* a step in which the tool ran: only _run and what it calls append to the log
ToolStep == logs' > logs

\* the text _run worked on in the step
StepText == Trimmed(call'.text)

\* C4. SQL execution never propagates a failure: when the agent calls the tool with a
\* text classified SQL, the call returns a result, an error result (with a message)
\* whenever the engine lookup, the database or the rendering failed; no exception
\* leaves the tool and the turn goes on (the agent is still running, no turn was added).
C4_NoPropagation ==
    [][ (ToolStep /\ IsSql(StepText))
        => /\ result'.status \in {"success", "error"}
           /\ call'.fault # "none" => result'.status = "error"
           /\ result'.status = "error" => result'.message # "none"
           /\ pc = "thinking" /\ pc' = "thinking"
           /\ messages' = messages ]_vars

\* C4, reached: a failed SQL call returned an error result and the agent is still running
C4_Witness ==
    /\ pc = "thinking"
    /\ call.made /\ IsSql(CallText)
    /\ call.fault = "database"
    /\ result.status = "error"

\* C5. Code is stored, not run: a call with a text classified CODE appends exactly one
\* entry {id, code: text} to the end of generated_codes, executes nothing and leaves
\* last_df and last_sql as they were; a call with a text classified SQL that succeeds
\* sets last_df and appends nothing to generated_codes.
C5_CodeStoredNotRun ==
    [][ ToolStep
        => /\ (StepText # <<>> /\ ~IsSql(StepText))
                => /\ result'.status = "stored"
                   /\ generated_codes' =
                          Append(generated_codes, [id |-> result'.id, code |-> StepText])
                   /\ last_df' = last_df /\ last_sql' = last_sql
                   /\ executed' = executed
           /\ (IsSql(StepText) /\ result'.status = "success")
                => /\ last_df' = [rows |-> result'.rows, sql |-> result'.query]
                   /\ last_df' # NoDf
                   /\ generated_codes' = generated_codes ]_vars

\* C5, reached: code was stored behind another snippet while last_df held a result
C5_Witness ==
    /\ result.status = "stored"
    /\ Len(generated_codes) = 2
    /\ generated_codes[1].id # generated_codes[2].id
    /\ generated_codes[2].id = result.id
    /\ last_df # NoDf

\* C6. Human-gated execution: every execution of a stored snippet is a click on that
\* snippet's own Run button; no step of the agent loop (prompt, tool call, answer)
\* executes a snippet, and a snippet never clicked is never executed.
C6_HumanGated ==
    [][ executed' # executed => \E i \in DOMAIN generated_codes : ClickRun(i) ]_vars

\* C6, reached: of two stored snippets one was clicked and executed, the other not
C6_Witness ==
    /\ Len(executed) = 1
    /\ \E i, j \in DOMAIN generated_codes :
          /\ generated_codes[i] = executed[1]
          /\ generated_codes[j].id # executed[1].id

\* C7 (as claimed). Snippet ids are unique: the ids of the entries of generated_codes
\* are pairwise distinct, also for stores within one clock second and of the same code.
C7_Original ==
    \A i, j \in DOMAIN generated_codes :
        i # j => generated_codes[i].id # generated_codes[j].id

\* the six characters of the uuid that the id keeps
Suffix(uuid) == SubSeq(uuid, 1, 6)

\* C7 (amended). Two entries of generated_codes have distinct ids whenever they were
\* stored in different clock seconds or drew different six-character suffixes, whatever
\* their code; two stores in one second that draw the same suffix share their id.
C7_IdsDistinct ==
    /\ Len(stamps) = Len(generated_codes)
    /\ \A i, j \in DOMAIN generated_codes :
          i # j =>
            ( generated_codes[i].id = generated_codes[j].id
              <=> ( /\ stamps[i].second = stamps[j].second
                    /\ Suffix(stamps[i].uuid) = Suffix(stamps[j].uuid) ) )

\* C7, reached: the same code stored in two different seconds with the same suffix
C7_Witness ==
    /\ Len(generated_codes) = 2
    /\ generated_codes[1].code = generated_codes[2].code
    /\ stamps[1].second # stamps[2].second
    /\ Suffix(stamps[1].uuid) = Suffix(stamps[2].uuid)
    /\ generated_codes[1].id # generated_codes[2].id

\* C8 (as claimed). Single-slot last-result cache: a successful SQL execution puts its
\* rows in last_df, overwriting what was there, and an execution that fails (returns
\* an error result) leaves last_df exactly as it was.
C8_LastResultCache ==
    [][ (ToolStep /\ IsSql(StepText))
        => /\ result'.status = "success"
                => last_df' = [rows |-> result'.rows, sql |-> result'.query]
           /\ result'.status = "error" => last_df' = last_df ]_vars

IsPrefix(a, b) == Len(a) <= Len(b) /\ SubSeq(b, 1, Len(a)) = a

\* C9. The conversation is append-only: every step other than Clear Chat History
\* leaves the message list a prefix of the new list (no turn edited, removed or
\* reordered); the list shrinks only through Clear Chat History.
C9_AppendOnly ==
    [][ IsPrefix(messages, messages') \/ ClearChat ]_vars

\* C9, reached: four turns were appended one after the other, an error turn among them
C9_Witness ==
    /\ Len(messages) = 4
    /\ messages[2].content = ErrorAnswer
    /\ messages[4].content # ErrorAnswer

Alternates(m) ==
    \A i \in DOMAIN m : m[i].role = (IF i % 2 = 1 THEN "user" ELSE "assistant")

\* C10. Every turn is recorded: a submitted prompt appends one user turn and then one
\* assistant turn, whether the agent returns or raises (then the turn carries the
\* error message); so the list alternates user, assistant, ..., is complete whenever
\* the session waits for a prompt, and ends with the open prompt while the agent runs.
C10_EveryTurnRecorded ==
    /\ Alternates(messages)
    /\ pc = "idle" => Len(messages) % 2 = 0
    /\ pc = "thinking" => /\ Len(messages) % 2 = 1
                          /\ messages[Len(messages)] = Turn("user", invoked.input)

\* C10, reached: after a turn that raised, the next prompt was taken and answered
C10_Witness ==
    /\ pc = "idle"
    /\ Len(messages) = 4
    /\ messages[2] = Turn("assistant", ErrorAnswer)
    /\ messages[3].role = "user"
    /\ messages[4].role = "assistant" /\ messages[4].content # ErrorAnswer

\* C11 (as claimed). History handed to the model: a submitted prompt enters
\* agent_executor.invoke as the input, with exactly the turns recorded before it as
\* chat_history, in order; the prompt itself is not part of that history.
C11_HistoryBeforeQuestion ==
    [][ (pc = "idle" /\ pc' = "thinking")
        => /\ invoked'.input = messages'[Len(messages')].content
           /\ invoked'.chat_history = messages ]_vars

\* what the page shows of the text around the payloads of message k
Residual(k) == IF page[k].markdown = None THEN <<>> ELSE page[k].markdown

\* the answer drawn is a, one span around p, b
OneSpan(a, p, b) ==
    /\ page # <<>>
    /\ messages[2].content = a \o Span(p) \o b

\* C12 (as claimed). Plot payload round-trip: for every payload p without the
\* closing marker and every marker-free a and b, extraction from
\* a + [PLOTLY_JSON] + p + [/PLOTLY_JSON] + b yields exactly p and the residual a + b.
C12_Original ==
    \A a \in Befores, p \in Payloads, b \in Afters :
        OneSpan(a, p, b) => /\ page[2].blocks = <<p>>
                            /\ Residual(2) = a \o b

\* C12 (amended). The extraction yields exactly the payload p, and the residual is
\* a + b with the leading and the trailing whitespace removed (so 'abc  def' for
\* 'abc [PLOTLY_JSON]p[/PLOTLY_JSON] def'); nothing is shown if that is empty.
C12_RoundTrip ==
    \A a \in Befores, p \in Payloads, b \in Afters :
        OneSpan(a, p, b) => /\ page[2].blocks = <<p>>
                            /\ Residual(2) = Strip(a \o b)
                            /\ (page[2].markdown = None) = (Strip(a \o b) = <<>>)

\* C12, reached: a payload of two lines extracted whole from an answer that begins
\* with whitespace, which the residual has lost
C12_Witness ==
    /\ OneSpan(Pad(MaxPad, " "), <<"{","\n","}">>, <<" ","d","e","f">>)
    /\ page[2].blocks = << <<"{","\n","}">> >>
    /\ Residual(2) = <<"d","e","f">>

\* C13 (as claimed). At most one payload per answer: however many well-formed spans
\* the text of an assistant message has, at most one payload is extracted and at
\* most one chart is drawn.
C13_Original ==
    \A k \in DOMAIN page : Len(page[k].charts) <= 1

\* the answer drawn is a, a span around p1, a span around p2, b
TwoSpans(a, p1, p2, b) ==
    /\ page # <<>>
    /\ messages[2].content = a \o Span(p1) \o Span(p2) \o b

\* C13 (amended). One rendering per span: every well-formed span of an assistant
\* message is extracted, in order, and drawn as a chart if its payload parses and
\* reported as a render error otherwise; an answer with one span draws at most one
\* chart, an answer with two spans whose payloads parse draws both.
C13_OnePerSpan ==
    /\ \A k \in DOMAIN page :
          /\ Len(page[k].charts) + page[k].errors = Len(page[k].blocks)
          /\ messages[k].role = "user" => page[k].blocks = <<>>
    /\ \A a \in Befores, p \in Payloads, b \in Afters :
          OneSpan(a, p, b) => Len(page[2].blocks) = 1 /\ Len(page[2].charts) <= 1
    /\ \A a \in Befores, p1 \in Payloads, p2 \in { <<"{","}">>, <<"q">> }, b \in Afters :
          TwoSpans(a, p1, p2, b)
          => /\ page[2].blocks = <<p1, p2>>
             /\ page[2].charts = Keep(<<p1, p2>>, 1)

\* C13, reached: an answer with two well-formed spans, both drawn as charts
C13_Witness ==
    /\ TwoSpans(<<"a","b","c"," ">>, <<"{","}">>, <<"{","}">>, <<>>)
    /\ Len(page[2].charts) = 2

EndsWith(s, p) == Len(p) <= Len(s) /\ SubSeq(s, Len(s) - Len(p) + 1, Len(s)) = p

ErrorWord == <<"E","r","r","o","r">>

\* the last analytics call was of this tool on the existing table
Called(tool) == analytics.tool = tool /\ analytics.args.table_name = TableT

\* C14 (as claimed). Every registered plot type works: create_interactive_plot with a
\* plot type of {bar, scatter, histogram} on the existing table, an existing x column
\* and no y or an existing y column returns a text that starts with [PLOTLY_JSON] and
\* ends with [/PLOTLY_JSON], not an error text.
C14_EveryPlotTypeWorks ==
    ( /\ Called("create_interactive_plot")
      /\ analytics.args.plot_type \in { <<"b","a","r">>, <<"s","c","a","t","t","e","r">>, <<"h","i","s","t","o","g","r","a","m">> }
      /\ HasColumn(analytics.args.x)
      /\ (analytics.args.y = None \/ HasColumn(analytics.args.y))
      /\ analytics.args.color = None )
    => /\ StartsWith(analytics.out.text, OpenMarker)
       /\ EndsWith(analytics.out.text, CloseMarker)
       /\ ~StartsWith(analytics.out.text, ErrorWord)

\* C15. Analytics tools never throw: whatever the table name, the column names, the
\* plot type and the data, each of the four tools returns a text; for a missing table,
\* a missing column or an unregistered plot type the text is an error message, which
\* carries no plot payload.
C15_NeverThrow ==
    analytics.tool # "none"
    => /\ analytics.out.status = "returned"
       /\ analytics.out.text # <<>>
       /\ ( \/ analytics.args.table_name # TableT
            \/ (analytics.args.column # None /\ ~HasColumn(analytics.args.column))
            \/ (analytics.args.plot_type # None /\ analytics.args.plot_type \notin PLOT_FUNCTIONS) )
          => /\ StartsWith(analytics.out.text, ErrorWord)
             /\ ~Contains(analytics.out.text, OpenMarker)
             /\ analytics.out.fig = NoFig

\* C15, reached: a plot of an unregistered type was asked for and an error text returned
C15_Witness ==
    /\ Called("create_interactive_plot")
    /\ analytics.args.plot_type = <<"p","i","e">>
    /\ analytics.out.status = "returned"
    /\ analytics.out.text = <<"E","r","r","o","r"," ","c","r","e","a","t","i","n","g"," ","p","l","o","t",":"," ","U","n","s","u","p","p","o","r","t","e","d"," ","p","l","o","t"," ","t","y","p","e",":"," ","p","i","e">>

\* the values of the column the last call names
CalledColumn == ColumnOf(table_data, analytics.args.column)

\* C16. Missing column: count_categorical_variable on the existing table returns, for a
\* column name that is not a column, an error text that holds the name and no counts;
\* for a column that exists, one count per distinct value (the number of rows with the
\* value), in descending order of count, and the text formatted from them.
C16_MissingColumn ==
    Called("count_categorical_variable")
    => LET out == analytics.out
           col == analytics.args.column
       IN  /\ ~HasColumn(col)
              => /\ StartsWith(out.text, ErrorWord)
                 /\ Contains(out.text, <<"'">> \o col \o <<"'">>)
                 /\ out.counts = <<>>
           /\ HasColumn(col)
              => /\ ~StartsWith(out.text, ErrorWord)
                 /\ \A j, k \in DOMAIN out.counts :
                        /\ j < k => out.counts[j].count >= out.counts[k].count
                        /\ j # k => out.counts[j].value # out.counts[k].value
                 /\ \A k \in DOMAIN out.counts :
                        out.counts[k].count =
                            Cardinality({i \in DOMAIN table_data : CalledColumn[i] = out.counts[k].value})
                 /\ \A i \in DOMAIN table_data :
                        CalledColumn[i] # None
                        => \E k \in DOMAIN out.counts : out.counts[k].value = CalledColumn[i]
                 /\ EndsWith(out.text, CountsToString(out.counts, 1))

\* C16, reached: the value seen first is the rarer one and comes second in the counts
C16_Witness ==
    /\ Called("count_categorical_variable")
    /\ analytics.args.column = ColC
    /\ Len(table_data) = 3
    /\ table_data[1].c = <<"b">>
    /\ analytics.out.counts = << [value |-> <<"a">>, count |-> 2], [value |-> <<"b">>, count |-> 1] >>

RECURSIVE SumSeq(_)
SumSeq(s) == IF s = <<>> THEN 0 ELSE s[1] + SumSeq(Tail(s))

\* the rows whose value in the column of the last call parses as a date
ParseableRows == {i \in DOMAIN table_data : ParsesAsDate(CalledColumn[i])}

\* C17. Yearly summary: create_yearly_summary_plot on the existing table and a column
\* of it returns a bar chart with one bucket per distinct year among the rows whose
\* value parses, in ascending order of the year, each bucket counting the parseable
\* rows of its year; the counts sum to the number of parseable rows, and the rows that
\* do not parse are in no bucket and cause no error.
C17_YearlySummary ==
    (Called("create_yearly_summary_plot") /\ HasColumn(analytics.args.column))
    => LET out == analytics.out
           fig == analytics.out.fig
       IN  /\ StartsWith(out.text, OpenMarker) /\ EndsWith(out.text, CloseMarker)
           /\ fig.type = "bar"
           /\ Len(fig.x) = Len(fig.y)
           /\ \A j, k \in DOMAIN fig.x : j < k => fig.x[j] < fig.x[k]
           /\ {fig.x[k] : k \in DOMAIN fig.x} = {YearOf(CalledColumn[i]) : i \in ParseableRows}
           /\ \A k \in DOMAIN fig.x :
                  fig.y[k] = Cardinality({i \in ParseableRows : YearOf(CalledColumn[i]) = fig.x[k]})
           /\ SumSeq(fig.y) = Cardinality(ParseableRows)

\* C17, reached: three rows, the later year first and one date that does not parse;
\* two buckets in ascending order, the third row in neither
C17_Witness ==
    /\ Called("create_yearly_summary_plot")
    /\ analytics.args.column = ColD
    /\ Len(table_data) = 3
    /\ table_data[1].d = <<"2","0","2","1","-","0","3","-","0","1">>
    /\ Cardinality(ParseableRows) = 2
    /\ analytics.out.fig.x = << 2020, 2021 >>
    /\ analytics.out.fig.y = << 1, 1 >>

\* the name C18 gives a file: the stem, lower-cased, every other character than a
\* letter or digit replaced by '_'
ClaimedName(file) ==
    LET stem == SplitExtRoot(file)
    IN  Lower([k \in DOMAIN stem |-> IF IsAlnum(stem[k]) THEN stem[k] ELSE "_"])

\* a batch none of whose names meets the further rules of app.py: no stem starts with
\* a digit or is longer than MaxNameLen, no two files claim the same name
PlainBatch ==
    /\ \A k \in DOMAIN upload.files :
          /\ ~IsDigit(upload.files[k][1])
          /\ Len(ClaimedName(upload.files[k])) <= MaxNameLen
    /\ \A j, k \in DOMAIN upload.files :
          j # k => ClaimedName(upload.files[j]) # ClaimedName(upload.files[k])

\* C18 (as claimed). CSV table naming: by either loader, the table of an uploaded file
\* is named by the file name without extension, lower-cased, every non-alphanumeric
\* character replaced by '_' ('Sales Q1.csv' gives 'sales_q1').
C18_TableNaming ==
    (upload.loader # "none" /\ PlainBatch)
    => /\ Len(upload.names) = Len(upload.files)
       /\ \A k \in DOMAIN upload.files : upload.names[k] = ClaimedName(upload.files[k])

\* C19 (as claimed). Table-name collisions: by either loader, the table names returned
\* for a batch are pairwise distinct, there is one table per file, and every file's
\* rows are in the table named for it (no file's table is overwritten by a later file).
C19_NoCollisions ==
    upload.loader # "none"
    => /\ Len(upload.names) = Len(upload.files)
       /\ \A j, k \in DOMAIN upload.names : j # k => upload.names[j] # upload.names[k]
       /\ Cardinality(upload.tables) = Len(upload.files)
       /\ \A k \in DOMAIN upload.files :
              [name |-> upload.names[k], file |-> k] \in upload.tables

\* a step that is a direct call of _is_sql
ClassifyStep == \E t \in ClassifyTexts : IsSqlCall(t)

\* C20 (as claimed). Classification is pure and deterministic: a call of _is_sql(t)
\* changes no session key at all, logs included, and returns what the previous call
\* on the same text returned, whatever the session state was then.
C20_Original ==
    [][ ClassifyStep
        => /\ logs' = logs
           /\ UNCHANGED << messages, generated_codes, last_sql, last_df >>
           /\ (classified.made /\ classified.text = classified'.text)
                  => classified'.value = classified.value ]_vars

\* C20 (amended). Classification is deterministic and pure but for the log: a call of
\* _is_sql(t) leaves every session key other than logs as it was, only appends to logs
\* (log_ai_event once for an empty text, twice otherwise), and returns the value the
\* rule gives t, the same as the previous call on t in whatever session state.
C20_PureButLogs ==
    [][ \A t \in ClassifyTexts :
          IsSqlCall(t)
          => /\ UNCHANGED << messages, generated_codes, last_sql, last_df, stamps,
                             executed, call, result, pc, invoked >>
             /\ logs' = logs + (IF t = None \/ t = <<>> THEN 1 ELSE 2)
             /\ classified'.value = (t # None /\ t # <<>> /\ ClaimedSql(t))
             /\ (classified.made /\ classified.text = t)
                    => classified'.value = classified.value ]_vars

\* C20, reached: a text was classified SQL in a session that holds a result, a stored
\* snippet and log entries of earlier calls
C20_Witness ==
    /\ classified.made /\ classified.text = <<"x"," ","f","r","o","m"," ","t">> /\ classified.value
    /\ last_sql # None /\ last_df # NoDf
    /\ generated_codes # <<>>
    /\ logs > MaxLogs

\* C21. Empty input is rejected before classification: a call of _run with None, the
\* empty text or white space only returns the error result "No SQL or Python code
\* provided." and appends just its own two log entries (none of _is_sql, none of
\* _execute_sql, none of _store_python_code); last_df, last_sql and generated_codes
\* are as they were and nothing is executed.
C21_EmptyRejected ==
    [][ (ToolStep /\ StepText = <<>>)
        => /\ call'.text \in EmptyTexts
           /\ result' = ErrorResult("No SQL or Python code provided.")
           /\ logs' = logs + 2
           /\ last_df' = last_df
           /\ last_sql' = last_sql
           /\ generated_codes' = generated_codes
           /\ executed' = executed ]_vars

\* C21, reached: white space only was rejected in a session that holds a result and a
\* stored snippet
C21_Witness ==
    /\ call.made /\ call.text = TxtBlank
    /\ result = ErrorResult("No SQL or Python code provided.")
    /\ last_df # NoDf /\ last_sql # None
    /\ generated_codes # <<>>

\* a connection attempt that fails as the claim lists: a type the loader does not
\* support, a driver error, a database without tables
ConnectFailed(db_type, fault, supported) ==
    db_type \notin supported \/ fault \in { "driver", "no_tables" }

\* C22. A failed connection never yields a ready session: while the last loader call
\* of the main script is an external-database connection that failed (unsupported
\* type, driver error, no table), the loader returned (None, None), the question area
\* is closed whatever the session held before, and no question reaches an agent;
\* data_manager's loader called with a failing connection returns (None, None) too.
C22_FailedNeverReady ==
    [][ /\ ( /\ app'.attempt.loader = "external"
             /\ ConnectFailed(app'.attempt.db_type, app'.attempt.fault,
                              { "PostgreSQL", "MySQL", "SQL Server" }) )
            => /\ app'.returned = << None, None >>
               /\ ~Ready'
               /\ app'.asked = app.asked
        /\ ( /\ app'.probe.made
             /\ ConnectFailed(app'.probe.db_type, app'.probe.fault,
                              { "PostgreSQL", "MySQL" }) )
            => app'.probe.returned = << None, None >> ]_vars

\* C22, reached: a session that was ready met a database without tables and is no
\* longer ready
C22_Witness ==
    /\ app.attempt = [loader |-> "external", db_type |-> "MySQL", fault |-> "no_tables"]
    /\ app.was_ready
    /\ app.asked > 0
    /\ ~Ready

\* C23 (as claimed). Execution safety setting: a click on Run executes the snippet only
\* while allow_code_exec is enabled; while it is disabled a click executes nothing.
C23_SettingGatesExecution ==
    [][ executed' # executed => allow_code_exec ]_vars

\* C24 (as claimed). last_sql and last_df stay paired: whenever both are set, last_df
\* holds the rows of the statement in last_sql; an execution that fails (returns an
\* error result) changes neither of the two; the query field of a success result is
\* last_sql.
C24_LastSqlLastDfPaired ==
    [][ ToolStep
        => /\ (last_sql' # None /\ last_df' # NoDf) => last_df'.sql = last_sql'
           /\ (IsSql(StepText) /\ result'.status = "error")
                  => (last_sql' = last_sql /\ last_df' = last_df)
           /\ result'.status = "success" => result'.query = last_sql' ]_vars

\* a step of the Clear Chat History button that had something to clear
ClearStep ==
    \/ messages # <<>> /\ messages' = <<>>
    \/ generated_codes # <<>> /\ generated_codes' = <<>>

\* C25. Clear Chat History resets exactly the conversation and the stored snippets:
\* after it messages and generated_codes are empty; last_df, last_sql, the logs, the
\* agent executor and the data source are as before; and since a Run click executes
\* only an entry that generated_codes holds at the click, a snippet stored before the
\* clear cannot be run after it.
C25_ClearResetsExactly ==
    [][ /\ ClearStep
            => /\ messages' = <<>> /\ generated_codes' = <<>>
               /\ last_df' = last_df /\ last_sql' = last_sql /\ logs' = logs
               /\ app'.agent_executor = app.agent_executor /\ app'.db = app.db
               /\ table_rows' = table_rows
               /\ executed' = executed
        /\ executed' # executed
            => \E i \in DOMAIN generated_codes :
                   executed' = Append(executed, generated_codes[i]) ]_vars

\* C25, reached: the chat was used, a snippet was stored and run, and a clear has
\* emptied the conversation and the snippets; the log and the agent are kept
C25_Witness ==
    /\ messages = <<>> /\ generated_codes = <<>>
    /\ invoked.input # "none"
    /\ executed # <<>>
    /\ logs > 0
    /\ Ready

====
